---- MODULE Spec2Model ----
(***************************************************************************)
(* A model of avatar_generator.Avatar (src/avatar_generator/__init__.py).  *)
(*                                                                         *)
(* Three parts share the module:                                           *)
(*   - _background_color as a step machine over the process-wide random    *)
(*     generator (one step per generator operation), run by one thread     *)
(*     (SeqSpec, FairSeqSpec) or by two threads interleaving (ConcSpec);   *)
(*   - generate as one atomic call over an abstract canvas (GenSpec);      *)
(*   - _apply_gradient on small canvases, pixel by pixel (GradSpec).       *)
(***************************************************************************)
EXTENDS Integers, Sequences, FiniteSets

VARIABLES
    stream,      \* the generator's output function: generator state -> randint(0, 255)
    gen,         \* the state of the process-wide generator (module random)
    pc,          \* per thread: position inside _background_color
    arg,         \* per thread: the parameter s of the running / last call
    r, v, b,     \* per thread: the locals r, v, b
    result,      \* per thread: the tuple returned by the last call
    rounds,      \* per thread (history): completed rounds of three draws
    interfered,  \* per thread (history): another thread used the generator mid-call
    prev,        \* history: seed and rounds of the previously returned call
    out,         \* what the last generate call built and returned
    gpc, im, color_array, f_co, t_co, i, color, gradient, composed
                 \* _apply_gradient: position, arguments, locals, return value

bgvars == <<stream, gen, pc, arg, r, v, b, result, rounds, interfered, prev>>
grvars == <<gpc, im, color_array, f_co, t_co, i, color, gradient, composed>>
vars == <<stream, gen, pc, arg, r, v, b, result, rounds, interfered, prev, out,
          gpc, im, color_array, f_co, t_co, i, color, gradient, composed>>

-----------------------------------------------------------------------------
(* Bounds of the model *)

\* Period of the modelled generator (its number of states).
Period == 5

\* The history counter of rounds saturates here; the loop itself has no cap.
MaxRounds == 2

\* Largest canvas side on which _apply_gradient is run pixel by pixel.
MaxWidth == 3

\* generate is called with sizes 1 and MIN_RENDER_SIZE - SizeSpan .. MIN_RENDER_SIZE + SizeSpan.
SizeSpan == 4

-----------------------------------------------------------------------------
(* Program constants *)

MIN_RENDER_SIZE == 512

FONT_COLOR == <<255, 255, 255>>

\* Values randint(0, 255) takes in the model: both ends of the range and 1, so
\* that 255 + 255 + 0 = 510 (kept) and 255 + 255 + 1 = 511 (dropped) both occur.
DrawVals == {0, 1, 255}

\* Seed texts, as sequences of code points: "a", "ab".
SeedTexts == {<<97>>, <<97, 98>>}

Threads == {1, 2}

NoSeed == <<>>
NoColor == <<>>
Unset == -1

Max(x, y) == IF x >= y THEN x ELSE y

-----------------------------------------------------------------------------
(* The process-wide generator: random.seed and random.randint *)

RECURSIVE HashText(_, _)
HashText(s, h) ==
    IF s = <<>> THEN h ELSE HashText(Tail(s), (31 * h + Head(s)) % Period)

\* A seed that stirs the text into the state g the generator was in.
SeedStateMixed(g, s) == (g + HashText(s, 0)) % Period

\* seed(s): the generator's whole state becomes a function of s alone.
SeedState(g, s) == HashText(s, 0)

\* randint(0, 255): the value drawn in state g, and the state after the draw.
RandInt(g) == stream[g]
Advance(g) == (g + 1) % Period

-----------------------------------------------------------------------------
(* _background_color, one step per line *)

\* A loop test that the placeholder 255, 255, 255 already passes.
LoopCondNoEntry(x, y, z) == x + y + z > 255 * 3

\* A loop test that also drops the sum 510.
LoopCondStrict(x, y, z) == x + y + z >= 255 * 2

\* while r + v + b > 255*2
LoopCond(x, y, z) == x + y + z > 255 * 2

\* Thread u is between its reseed and its last draw.
MidCall(u) ==
    \/ pc[u] \in {"drawR", "drawV", "drawB"}
    \/ pc[u] = "while" /\ LoopCond(r[u], v[u], b[u])

\* History: thread t touched the generator; every thread caught mid-call is marked.
Mark(t) == [u \in Threads |-> interfered[u] \/ (u # t /\ MidCall(u))]

Call(t, s) ==
    /\ pc[t] \in {"idle", "done"}
    /\ pc' = [pc EXCEPT ![t] = "seed"]
    /\ arg' = [arg EXCEPT ![t] = s]
    /\ r' = [r EXCEPT ![t] = Unset]
    /\ v' = [v EXCEPT ![t] = Unset]
    /\ b' = [b EXCEPT ![t] = Unset]
    /\ result' = [result EXCEPT ![t] = NoColor]
    /\ rounds' = [rounds EXCEPT ![t] = 0]
    /\ interfered' = [interfered EXCEPT ![t] = FALSE]
    /\ prev' = IF pc[t] = "done"
               THEN [seed |-> arg[t], rounds |-> rounds[t]]
               ELSE prev
    /\ UNCHANGED <<stream, gen, out>>
    /\ UNCHANGED grvars

\* seed(s); r = v = b = 255
Seed(t) ==
    /\ pc[t] = "seed"
    /\ gen' = SeedState(gen, arg[t])
    /\ r' = [r EXCEPT ![t] = 255]
    /\ v' = [v EXCEPT ![t] = 255]
    /\ b' = [b EXCEPT ![t] = 255]
    /\ pc' = [pc EXCEPT ![t] = "while"]
    /\ interfered' = Mark(t)
    /\ UNCHANGED <<stream, arg, result, rounds, prev, out>>
    /\ UNCHANGED grvars

\* the loop test, and return (r, v, b) when it fails
While(t) ==
    /\ pc[t] = "while"
    /\ IF LoopCond(r[t], v[t], b[t])
       THEN /\ pc' = [pc EXCEPT ![t] = "drawR"]
            /\ UNCHANGED result
       ELSE /\ pc' = [pc EXCEPT ![t] = "done"]
            /\ result' = [result EXCEPT ![t] = <<r[t], v[t], b[t]>>]
    /\ UNCHANGED <<stream, gen, arg, r, v, b, rounds, interfered, prev, out>>
    /\ UNCHANGED grvars

\* r = randint(0, 255)
DrawR(t) ==
    /\ pc[t] = "drawR"
    /\ r' = [r EXCEPT ![t] = RandInt(gen)]
    /\ gen' = Advance(gen)
    /\ pc' = [pc EXCEPT ![t] = "drawV"]
    /\ interfered' = Mark(t)
    /\ UNCHANGED <<stream, arg, v, b, result, rounds, prev, out>>
    /\ UNCHANGED grvars

\* v = randint(0, 255)
DrawV(t) ==
    /\ pc[t] = "drawV"
    /\ v' = [v EXCEPT ![t] = RandInt(gen)]
    /\ gen' = Advance(gen)
    /\ pc' = [pc EXCEPT ![t] = "drawB"]
    /\ interfered' = Mark(t)
    /\ UNCHANGED <<stream, arg, r, b, result, rounds, prev, out>>
    /\ UNCHANGED grvars

\* b = randint(0, 255)
DrawB(t) ==
    /\ pc[t] = "drawB"
    /\ b' = [b EXCEPT ![t] = RandInt(gen)]
    /\ gen' = Advance(gen)
    /\ pc' = [pc EXCEPT ![t] = "while"]
    /\ rounds' = [rounds EXCEPT ![t] = IF @ < MaxRounds THEN @ + 1 ELSE @]
    /\ interfered' = Mark(t)
    /\ UNCHANGED <<stream, arg, r, v, result, prev, out>>
    /\ UNCHANGED grvars

\* The loop of _background_color run without interruption from generator
\* state g with locals x, y, z: the color returned and the state the generator
\* is left in; NoColor when no round is kept (the generator has period Period,
\* so Period rounds visit every round there is, and the call never returns).
RECURSIVE Rejection(_, _, _, _, _)
Rejection(g, x, y, z, fuel) ==
    IF ~LoopCond(x, y, z) THEN [color |-> <<x, y, z>>, gen |-> g]
    ELSE IF fuel = 0 THEN [color |-> NoColor, gen |-> g]
    ELSE Rejection(Advance(Advance(Advance(g))),
                   RandInt(g), RandInt(Advance(g)), RandInt(Advance(Advance(g))),
                   fuel - 1)

\* _background_color(s) as one uninterrupted call.
BackgroundCall(s) == Rejection(SeedState(gen, s), 255, 255, 255, Period)
BackgroundColor(s) == BackgroundCall(s).color

-----------------------------------------------------------------------------
(* Images: a width, a height and one RGBA pixel per coordinate *)

Transparent == <<0, 0, 0, 0>>

Coords(w, h) == (0 .. w - 1) \X (0 .. h - 1)

\* Image.new('RGBA', size) and Image.new('RGBA', size, color=0)
NewImage(w, h) ==
    [width |-> w, height |-> h, px |-> [p \in Coords(w, h) |-> Transparent]]

Abs(x) == IF x < 0 THEN -x ELSE x
Sgn(x) == IF x < 0 THEN -1 ELSE 1

\* The two Bresenham loops of the line drawer: n points from (x, y), the end
\* point not among them.
RECURSIVE BresenhamH(_, _, _, _, _, _, _, _)
BresenhamH(x, y, e, n, dx2, dy2, xs, ys) ==
    IF n = 0 THEN {}
    ELSE {<<x, y>>} \cup
         BresenhamH(x + xs,
                    IF e >= 0 THEN y + ys ELSE y,
                    (IF e >= 0 THEN e - dx2 ELSE e) + dy2,
                    n - 1, dx2, dy2, xs, ys)

RECURSIVE BresenhamV(_, _, _, _, _, _, _, _)
BresenhamV(x, y, e, n, dx2, dy2, xs, ys) ==
    IF n = 0 THEN {}
    ELSE {<<x, y>>} \cup
         BresenhamV(IF e >= 0 THEN x + xs ELSE x,
                    y + ys,
                    (IF e >= 0 THEN e - dy2 ELSE e) + dx2,
                    n - 1, dx2, dy2, xs, ys)

\* The points of a 1-pixel line from p0 to p1, the end point drawn last.
LinePoints(p0, p1) ==
    LET dx == Abs(p1[1] - p0[1])
        dy == Abs(p1[2] - p0[2])
        xs == Sgn(p1[1] - p0[1])
        ys == Sgn(p1[2] - p0[2])
        body ==
            IF dx = 0 THEN {<<p0[1], p0[2] + k * ys>> : k \in 0 .. dy - 1}
            ELSE IF dy = 0 THEN {<<p0[1] + k * xs, p0[2]>> : k \in 0 .. dx - 1}
            ELSE IF dx > dy
                 THEN BresenhamH(p0[1], p0[2], 2 * dy - dx, dx, 2 * dx, 2 * dy, xs, ys)
                 ELSE BresenhamV(p0[1], p0[2], 2 * dx - dy, dy, 2 * dx, 2 * dy, xs, ys)
    IN  body \cup {p1}

\* draw.line([p0, p1], fill, width=1): a three-channel fill is opaque, and
\* points outside the image are dropped.
DrawLine(img, p0, p1, fill) ==
    LET pts == LinePoints(p0, p1)
        ink == <<fill[1], fill[2], fill[3], 255>>
    IN  [img EXCEPT !.px = [p \in DOMAIN img.px |-> IF p \in pts THEN ink ELSE img.px[p]]]

\* Image.alpha_composite(dst, src): src over dst. A transparent src pixel
\* leaves dst, an opaque one replaces it (the canvas generate passes as src has
\* no pixel in between).
AlphaComposite(dst, src) ==
    [dst EXCEPT !.px = [p \in DOMAIN dst.px |->
                            IF src.px[p][4] = 0 THEN dst.px[p] ELSE src.px[p]]]

-----------------------------------------------------------------------------
(* _apply_gradient *)

\* A shift by a whole turn, which maps every channel to itself.
ColorMapperFullTurn(x) == (256 + x) % 256

\* The shift without the wrap.
ColorMapperNoWrap(x) == 255 + x - 100

\* color_mapper = lambda x: ((255 + x - 100) % 256)
ColorMapper(x) == (255 + x - 100) % 256

\* int(), which drops the fraction, in place of round().
RoundDown(num, den) == num \div den

\* round(num / den) for den > 0: to the nearest integer, a tie to the even one.
\* (The code rounds f + ((t - f) / interval) * i in binary floating point,
\* which agrees with the exact quotient for every interval below 38.)
Round(num, den) ==
    LET q == num \div den
        m == num % den
    IN  IF 2 * m > den THEN q + 1
        ELSE IF 2 * m < den THEN q
        ELSE IF q % 2 = 0 THEN q ELSE q + 1

\* interpolate(f_co, t_co, interval), its step k
Interpolate(f, t, interval, k) ==
    [c \in 1 .. 3 |-> Round(f[c] * interval + (t[c] - f[c]) * k, interval)]

\* lines 62-68: the layer, the start color and the shifted end color
GradSetup ==
    /\ gpc = "start"
    /\ gradient' = NewImage(im.width, im.height)
    /\ f_co' = <<color_array[1], color_array[2], color_array[3]>>
    /\ t_co' = <<ColorMapper(color_array[1]), ColorMapper(color_array[2]),
                 ColorMapper(color_array[3])>>
    /\ i' = 0
    /\ gpc' = "loop"
    /\ UNCHANGED <<im, color_array, color, composed, out>>
    /\ UNCHANGED bgvars

\* lines 69-70: one turn of the for loop
GradLine ==
    /\ gpc = "loop"
    /\ i < im.width * 2
    /\ color' = Interpolate(f_co, t_co, im.width * 2, i)
    /\ gradient' = DrawLine(gradient, <<i, 0>>, <<0, i>>, color')
    /\ i' = i + 1
    /\ UNCHANGED <<gpc, im, color_array, f_co, t_co, composed, out>>
    /\ UNCHANGED bgvars

\* line 72
GradReturn ==
    /\ gpc = "loop"
    /\ i = im.width * 2
    /\ composed' = AlphaComposite(gradient, im)
    /\ gpc' = "done"
    /\ UNCHANGED <<im, color_array, f_co, t_co, i, color, gradient, out>>
    /\ UNCHANGED bgvars

-----------------------------------------------------------------------------
(* generate, on a canvas known by its size and its gradient *)

\* A render size that follows the requested size below the floor too.
RenderSizeNoFloor(size) == size

\* render_size = max(size, Avatar.MIN_RENDER_SIZE)
RenderSize(size) == Max(size, MIN_RENDER_SIZE)

\* The point size rounded to the nearest integer.
FontSizeRounded(size) == (4 * size + 5) \div 10

\* int(0.4 * size): the product cut to an integer. (The binary floating
\* point product gives the same integer as the exact one for every size up
\* to 200000.)
FontSize(size) == (4 * size) \div 10

\* _font(size)
Font(size) == [path |-> "data/Inconsolata.otf", size |-> FontSize(size)]

\* font.getsize(text) of the monospace font: half an em per character, one
\* em high.
GetSize(font, text) == <<Len(text) * (font.size \div 2), font.size>>

\* _text_position(size, text, font): (left, top), each in ninths of a pixel,
\* as x / 2.25 = 4 * x / 9.
TextPosition(size, text, font) ==
    LET wh == GetSize(font, text)
    IN  <<4 * (size - wh[1]), 4 * (size - wh[2])>>

\* A resize that hands back the canvas as it is.
ResizeKept(img, size) == img

\* image.resize(size, Image.ANTIALIAS)
Resize(img, size) == [img EXCEPT !.width = size[1], !.height = size[2]]

\* Image.new followed by _apply_gradient, the canvas kept as its size and
\* the gradient painted on it: 2 * width steps from color_array to its shift.
GradientCanvas(w, h, c) ==
    [width |-> w, height |-> h,
     steps |-> w * 2,
     f_co |-> <<c[1], c[2], c[3]>>,
     t_co |-> <<ColorMapper(c[1]), ColorMapper(c[2]), ColorMapper(c[3])>>]

\* generate(size, fullname, initials, filetype), when _background_color returns
Generate(size, fullname, initials, filetype) ==
    LET render_size == RenderSize(size)
        call == BackgroundCall(fullname)
        background_color == call.color
        image == GradientCanvas(render_size, render_size, background_color)
        font == Font(render_size)
        position == TextPosition(render_size, initials, font)
    IN  /\ background_color # NoColor
        /\ gen' = call.gen
        /\ out' = [size |-> size,
                   fullname |-> fullname,
                   canvas |-> <<image.width, image.height>>,
                   gradient |-> [steps |-> image.steps, f_co |-> image.f_co,
                                 t_co |-> image.t_co],
                   font |-> font,
                   text |-> [xy |-> position, text |-> initials, fill |-> FONT_COLOR],
                   image |-> Resize(image, <<size, size>>),
                   format |-> filetype]
        /\ UNCHANGED <<stream, pc, arg, r, v, b, result, rounds, interfered, prev>>
        /\ UNCHANGED grvars

-----------------------------------------------------------------------------
BgInit ==
    /\ stream \in [0 .. Period - 1 -> DrawVals]
    /\ gen \in 0 .. Period - 1
    /\ pc = [t \in Threads |-> "idle"]
    /\ arg = [t \in Threads |-> NoSeed]
    /\ r = [t \in Threads |-> Unset]
    /\ v = [t \in Threads |-> Unset]
    /\ b = [t \in Threads |-> Unset]
    /\ result = [t \in Threads |-> NoColor]
    /\ rounds = [t \in Threads |-> 0]
    /\ interfered = [t \in Threads |-> FALSE]
    /\ prev = [seed |-> NoSeed, rounds |-> 0]

GenIdle == out = <<>>

GradIdle ==
    /\ gpc = "off"
    /\ im = <<>>
    /\ color_array = <<>>
    /\ f_co = <<>>
    /\ t_co = <<>>
    /\ i = 0
    /\ color = <<>>
    /\ gradient = <<>>
    /\ composed = <<>>

Step(t) ==
    \/ \E s \in SeedTexts : Call(t, s)
    \/ Seed(t)
    \/ While(t)
    \/ DrawR(t)
    \/ DrawV(t)
    \/ DrawB(t)

\* Calls one after another: a single thread.
SeqInit == BgInit /\ GenIdle /\ GradIdle
SeqNext == Step(1)
SeqSpec == SeqInit /\ [][SeqNext]_vars
FairSeqSpec == SeqSpec /\ WF_vars(SeqNext)

\* Two threads on the one generator, one call each.
ConcNext == \E t \in Threads : pc[t] # "done" /\ Step(t)
ConcSpec == SeqInit /\ [][ConcNext]_vars

\* Colors _background_color can return (r + g + b <= 510), every value of
\* 0..255 occurring in the first, the second and the third channel.
ColorSamples == {<<c, 255 - c, (7 * c) % 256>> : c \in 0 .. 255}

BgIdle ==
    /\ stream = [g \in 0 .. Period - 1 |-> 0]
    /\ gen = 0
    /\ pc = [t \in Threads |-> "idle"]
    /\ arg = [t \in Threads |-> NoSeed]
    /\ r = [t \in Threads |-> Unset]
    /\ v = [t \in Threads |-> Unset]
    /\ b = [t \in Threads |-> Unset]
    /\ result = [t \in Threads |-> NoColor]
    /\ rounds = [t \in Threads |-> 0]
    /\ interfered = [t \in Threads |-> FALSE]
    /\ prev = [seed |-> NoSeed, rounds |-> 0]

\* _apply_gradient on a fresh transparent square canvas.
GradInit ==
    /\ BgIdle
    /\ GenIdle
    /\ gpc = "start"
    /\ \E w \in 1 .. MaxWidth : im = NewImage(w, w)
    /\ color_array \in ColorSamples
    /\ f_co = <<>>
    /\ t_co = <<>>
    /\ i = 0
    /\ color = <<>>
    /\ gradient = <<>>
    /\ composed = <<>>

GradNext == GradSetup \/ GradLine \/ GradReturn
GradSpec == GradInit /\ [][GradNext]_vars

\* Requested sizes: 1 and the sizes around the render floor.
Sizes == {1} \cup (MIN_RENDER_SIZE - SizeSpan .. MIN_RENDER_SIZE + SizeSpan)

\* Initials, as sequences of code points: "A", "AB".
Initials == {<<65>>, <<65, 66>>}

GenNext ==
    \E size \in Sizes, fullname \in SeedTexts, initials \in Initials :
        Generate(size, fullname, initials, "PNG")
GenSpec == SeqInit /\ [][GenNext]_vars

Spec == SeqSpec

-----------------------------------------------------------------------------
(* Claims about _background_color *)

Sum(c) == c[1] + c[2] + c[3]

\* C1: every color _background_color returns has its three channels in
\* 0..255 and r + g + b <= 510, and is never the placeholder (255, 255, 255).
C1_ColorBounds ==
    \A t \in Threads :
        pc[t] = "done" =>
            /\ result[t] \in (0 .. 255) \X (0 .. 255) \X (0 .. 255)
            /\ Sum(result[t]) <= 510
            /\ result[t] # <<255, 255, 255>>

\* A call returned a color on the boundary r + g + b = 510.
C1_Witness == pc[1] = "done" /\ Sum(result[1]) = 510

\* C2: with calls one after another, a call with seed s returns the color
\* that s alone determines (the color of a run from a fresh reseed with s),
\* whatever state earlier calls left the generator in.
C2_SameSeedSameColor ==
    pc[1] = "done" => result[1] = BackgroundColor(arg[1])

\* A call returned after a call with another seed that took two rounds or more.
C2_Witness ==
    /\ pc[1] = "done"
    /\ prev.seed # NoSeed
    /\ prev.seed # arg[1]
    /\ prev.rounds >= 2
    /\ rounds[1] = 1

\* C3: with two calls interleaving on the one generator, a call whose color
\* differs from the color its seed yields alone had another call's reseed or
\* draw fall between its reseed and its last draw; and such a call exists
\* (the witness).
C3_DivergenceIsInterference ==
    \A t \in Threads :
        pc[t] = "done" /\ result[t] # BackgroundColor(arg[t]) => interfered[t]

\* A call returned a color other than the one its seed yields alone.
C3_Witness ==
    /\ pc[1] = "done"
    /\ BackgroundColor(arg[1]) # NoColor
    /\ result[1] # BackgroundColor(arg[1])
    /\ interfered[1]

\* C9: a call returns only after at least one round of three draws; at the
\* loop test it returns exactly when r + v + b <= 510 and draws another round
\* otherwise, however many rounds it has done; and when the generator, from
\* the state the seed puts it in, has a round that is kept, the call returns.
C9_Returned ==
    pc[1] = "done" =>
        /\ rounds[1] >= 1
        /\ result[1] = <<r[1], v[1], b[1]>>
        /\ Sum(result[1]) <= 510

C9_LoopExit ==
    pc[1] = "while" /\ pc'[1] # "while" =>
        /\ r[1] + v[1] + b[1] <= 510 => pc'[1] = "done"
        /\ r[1] + v[1] + b[1] > 510 => pc'[1] = "drawR"

C9_Terminates ==
    \A s \in SeedTexts :
        (pc[1] = "seed" /\ arg[1] = s /\ BackgroundColor(s) # NoColor)
            ~> (pc[1] = "done" /\ arg[1] = s)

\* C9: the returned state, the loop exit and the termination together.
C9_RejectionLoop == []C9_Returned /\ [][C9_LoopExit]_vars /\ C9_Terminates

\* A call returned after dropping at least one round.
C9_Witness == pc[1] = "done" /\ rounds[1] >= 2

-----------------------------------------------------------------------------
(* Claims about generate *)

\* The side max(size, 512) of the working canvas, written out.
Floor512(size) == IF size > 512 THEN size ELSE 512

\* C4: the image generate returns is exactly size x size, for every
\* requested size, below and above 512, whatever the seed text and initials.
C4_OutputSize ==
    out # <<>> => out.image.width = out.size /\ out.image.height = out.size

\* generate returned a 1 x 1 image rendered on a 512 x 512 canvas.
C4_Witness ==
    out # <<>> /\ out.size = 1 /\ out.image.width = 1 /\ out.canvas = <<512, 512>>

\* C5: the working canvas is square with side max(size, 512), at least 512
\* and at least size; the gradient's steps, the font size and the text
\* position come from that side, not from size.
C5_RenderFloor ==
    out # <<>> =>
        LET rs == Floor512(out.size)
            em == (4 * rs) \div 10
        IN  /\ out.canvas = <<rs, rs>>
            /\ rs >= 512
            /\ rs >= out.size
            /\ out.gradient.steps = 2 * rs
            /\ out.font.size = em
            /\ out.text.xy = <<4 * (rs - Len(out.text.text) * (em \div 2)),
                               4 * (rs - em)>>

\* generate returned for a size below the floor, other than 1.
C5_Witness ==
    out # <<>> /\ out.size = 511 /\ out.canvas = <<512, 512>> /\ out.font.size = 204

\* C6 as stated: the font's point size is 0.4 x renderSize rounded to the
\* nearest integer, 205 for renderSize 512.
C6_FontSizeIsRounded ==
    out # <<>> =>
        LET rs == Floor512(out.size)
        IN  /\ 2 * Abs(10 * out.font.size - 4 * rs) <= 10
            /\ rs = 512 => out.font.size = 205

\* C6 as amended: the font's point size is 0.4 x renderSize cut down to an
\* integer (the largest integer not above it), 204 for renderSize 512.
C6_FontSizeIsTruncated ==
    out # <<>> =>
        LET rs == Floor512(out.size)
        IN  /\ 10 * out.font.size <= 4 * rs
            /\ 4 * rs < 10 * (out.font.size + 1)
            /\ rs = 512 => out.font.size = 204

\* generate loaded the font for a render size whose 0.4-fold has a fraction
\* above one half: 0.4 x 514 = 205.6.
C6_Witness == out # <<>> /\ out.size = 514 /\ out.font.size = 205

-----------------------------------------------------------------------------
(* Claims about _apply_gradient *)

\* C7: each channel of the gradient's end color is (255 + c - 100) mod 256
\* of the start channel c and lies in 0..255; 0 -> 155, 100 -> 255,
\* 155 -> 54, 255 -> 154.
C7_Shift ==
    gpc # "start" =>
        \A k \in 1 .. 3 :
            LET c == color_array[k]
            IN  /\ t_co[k] = (255 + c - 100) % 256
                /\ t_co[k] \in 0 .. 255
                /\ c = 0 => t_co[k] = 155
                /\ c = 100 => t_co[k] = 255
                /\ c = 155 => t_co[k] = 54
                /\ c = 255 => t_co[k] = 154

\* The end color of (100, 155, 188): one channel at the top, one wrapped.
C7_Witness ==
    gpc = "done" /\ color_array = <<100, 155, 188>> /\ t_co = <<255, 54, 87>>

\* The channel ch is the exact step value f + (t - f) * k / interval rounded
\* to an integer: it is within one half of it.
IsRounded(ch, f, t, interval, k) ==
    2 * Abs(interval * ch - (interval * f + (t - f) * k)) <= interval

\* C8: on a transparent w x w canvas _apply_gradient draws 2w lines, steps
\* 0 .. 2w-1; in the result every pixel (x, y) is opaque and has the color
\* of step x + y, each channel f + (t - f) * (x + y) / (2w) rounded to an
\* integer; step 0 is the start color; every step's channels are in 0..255.
C8_Gradient ==
    /\ gpc = "loop" /\ i > 0 =>
          \A k \in 1 .. 3 :
              /\ color[k] \in 0 .. 255
              /\ IsRounded(color[k], f_co[k], t_co[k], 2 * im.width, i - 1)
              /\ i = 1 => color[k] = f_co[k]
    /\ gpc = "done" =>
          /\ i = 2 * im.width
          /\ composed.width = im.width /\ composed.height = im.height
          /\ composed.px[<<0, 0>>] = <<f_co[1], f_co[2], f_co[3], 255>>
          /\ \A p \in Coords(im.width, im.height) :
                /\ composed.px[p][4] = 255
                /\ \A k \in 1 .. 3 :
                      /\ composed.px[p][k] \in 0 .. 255
                      /\ IsRounded(composed.px[p][k], f_co[k], t_co[k],
                                   2 * im.width, p[1] + p[2])
                /\ \A q \in Coords(im.width, im.height) :
                      p[1] + p[2] = q[1] + q[2] => composed.px[p] = composed.px[q]

\* A finished 3 x 3 gradient whose far corner differs from its near corner.
C8_Witness ==
    /\ gpc = "done"
    /\ im.width = 3
    /\ composed.px[<<2, 2>>] # composed.px[<<0, 0>>]
    /\ composed.px[<<2, 0>>] = composed.px[<<1, 1>>]

\* C10: each channel of the end color differs from the start channel c: it is
\* c + 155 when c <= 100 and c - 101 when c >= 101; the end color differs
\* from the start color in all three channels.
C10_NeverFlat ==
    gpc # "start" =>
        \A k \in 1 .. 3 :
            /\ t_co[k] # f_co[k]
            /\ f_co[k] <= 100 => t_co[k] = f_co[k] + 155
            /\ f_co[k] >= 101 => t_co[k] = f_co[k] - 101

\* The end color of (101, 154, 195), on both sides of the wrap.
C10_Witness ==
    gpc = "done" /\ f_co = <<101, 154, 195>> /\ t_co = <<0, 53, 94>>
====
